---------------------------- MODULE Spec2Model ----------------------------
(***************************************************************************)
(* Model of the JSONL-to-CSV cloud function (src/main.py, src/config.py).  *)
(*                                                                         *)
(* One HTTP request is followed from its arrival in jsonl_to_csv through   *)
(* the input checks, the retried generate_and_execute attempts, the        *)
(* storage calls, the cleanup and the response.  The external             *)
(* collaborators (the generation service, the child process running the    *)
(* generated script, the object store, os.unlink) are nondeterministic:    *)
(* every outcome they can have is drawn with \E.                           *)
(***************************************************************************)
EXTENDS Integers, Sequences, FiniteSets, TLC

(***************************************************************************)
(* Bounds of the model.                                                    *)
(***************************************************************************)
\* largest configured value of Config.MAX_RETRY_ATTEMPTS that is explored
MaxAttemptsBound == 3
\* largest number of rows of a CSV table that is explored
MaxRows == 2
\* the longest run of spaces and tabs told from other text in a CSV cell
MaxSpaces == 3
\* largest number of items of a list of the model's JSON response
MaxItems == 2
\* largest number of lines of a response text given to extract_python_code
MaxLines == 3
\* largest number of pieces of a code given to execute_python_code
MaxCodeLen == 4

None == "None"

(***************************************************************************)
(* base64.b64decode(s) with its default validate=False, as binascii        *)
(* computes it: characters outside the alphabet are skipped, a pad that    *)
(* completes a quad ends the decoding, and leftover characters of an       *)
(* unfinished quad are an error.                                           *)
(***************************************************************************)
B64Chars == {"Q", "C", "g", "=", "!"}

\* position of a character in the base64 alphabet; 64 and more: not in it
table_a2b_base64(c) ==
    CASE c = "Q" -> 16
      [] c = "C" -> 2
      [] c = "g" -> 32
      [] OTHER   -> 64

RECURSIVE a2b_base64(_, _, _, _, _, _)
a2b_base64(s, i, quad_pos, leftchar, pads, out) ==
    IF i > Len(s)
    THEN IF quad_pos /= 0
         THEN [ok |-> FALSE, data |-> <<>>]
         ELSE [ok |-> TRUE, data |-> out]
    ELSE IF s[i] = "="
    THEN IF quad_pos >= 2 /\ quad_pos + pads + 1 >= 4
         THEN [ok |-> TRUE, data |-> out]
         ELSE a2b_base64(s, i + 1, quad_pos, leftchar,
                         IF quad_pos >= 2 THEN pads + 1 ELSE pads, out)
    ELSE LET this_ch == table_a2b_base64(s[i]) IN
         IF this_ch >= 64
         THEN a2b_base64(s, i + 1, quad_pos, leftchar, pads, out)
         ELSE CASE quad_pos = 0 ->
                     a2b_base64(s, i + 1, 1, this_ch, 0, out)
                [] quad_pos = 1 ->
                     a2b_base64(s, i + 1, 2, this_ch % 16, 0,
                                Append(out, leftchar * 4 + this_ch \div 16))
                [] quad_pos = 2 ->
                     a2b_base64(s, i + 1, 3, this_ch % 4, 0,
                                Append(out, leftchar * 16 + this_ch \div 4))
                [] OTHER ->
                     a2b_base64(s, i + 1, 0, 0, 0,
                                Append(out, leftchar * 64 + this_ch))

b64decode(s) == a2b_base64(s, 1, 0, 0, 0, <<>>)

(***************************************************************************)
(* open(input_path, 'r'); f.readline().strip()                             *)
(* The file is a sequence of bytes.  Text mode decodes it as UTF-8 (the    *)
(* encoding of the deployment's locale) into code points and raises on a   *)
(* sequence that is not valid UTF-8; with universal newlines '\r' and      *)
(* '\r\n' are read as '\n'.  readline takes the text up to the first       *)
(* newline, strip removes the white space at both ends, so the line is     *)
(* blank exactly when all its characters are white space.                  *)
(***************************************************************************)
\* str.isspace of a code point
IsSpace(c) ==
    \/ c \in {9, 10, 11, 12, 13, 28, 29, 30, 31, 32, 133, 160, 5760}
    \/ c \in 8192..8202
    \/ c \in {8232, 8233, 8239, 8287, 12288}

\* number of bytes of the UTF-8 sequence a byte starts; 0: it starts none
utf8_length(b) ==
    CASE b < 128 -> 1
      [] b \in 194..223 -> 2
      [] b \in 224..239 -> 3
      [] b \in 240..244 -> 4
      [] OTHER -> 0

\* the bytes present of the sequence of n bytes at i are valid: continuation
\* bytes follow, and the second byte excludes overlong forms, surrogates and
\* values over U+10FFFF.  A surrogate cut off after its second byte by the
\* end of the data is not refused: the incremental decoder holds it back
utf8_valid(content, i, n) ==
    /\ n > 0
    /\ \A k \in 1..(n - 1) :
           i + k <= Len(content) => content[i + k] \in 128..191
    /\ i + 1 <= Len(content) =>
           /\ (content[i] = 224 => content[i + 1] >= 160)
           /\ (content[i] = 237 /\ i + 2 <= Len(content) =>
                   content[i + 1] <= 159)
           /\ (content[i] = 240 => content[i + 1] >= 144)
           /\ (content[i] = 244 => content[i + 1] <= 143)

utf8_code_point(content, i, n) ==
    CASE n = 1 -> content[i]
      [] n = 2 -> (content[i] - 192) * 64 + (content[i + 1] - 128)
      [] n = 3 -> (content[i] - 224) * 4096 + (content[i + 1] - 128) * 64
                  + (content[i + 2] - 128)
      [] OTHER -> (content[i] - 240) * 262144 + (content[i + 1] - 128) * 4096
                  + (content[i + 2] - 128) * 64 + (content[i + 3] - 128)

\* the incremental UTF-8 decoder fed the bytes from i on (one chunk: the file
\* is shorter than the 8192 bytes a text file reads at once).  ok is false
\* when it raises on an invalid sequence; truncated is true when the bytes end
\* inside a sequence, which the decoder holds back until the end of the file
\* is read
RECURSIVE utf8_decode(_, _)
utf8_decode(content, i) ==
    IF i > Len(content)
    THEN [ok |-> TRUE, truncated |-> FALSE, text |-> <<>>]
    ELSE LET n == utf8_length(content[i]) IN
         IF ~utf8_valid(content, i, n)
         THEN [ok |-> FALSE, truncated |-> FALSE, text |-> <<>>]
         ELSE IF i + n - 1 > Len(content)
         THEN [ok |-> TRUE, truncated |-> TRUE, text |-> <<>>]
         ELSE LET rest == utf8_decode(content, i + n) IN
              IF ~rest.ok THEN rest
              ELSE [ok |-> TRUE, truncated |-> rest.truncated,
                    text |-> <<utf8_code_point(content, i, n)>> \o rest.text]

\* the decoded chunk holds a line end: a '\n', or a '\r' other than a last
\* character (the newline decoder holds a last '\r' back, a '\n' may follow)
has_newline(text) ==
    \E k \in 1..Len(text) :
        \/ text[k] = 10
        \/ text[k] = 13 /\ k < Len(text)

\* newline=None: '\r\n' and '\r' are translated into '\n'
RECURSIVE universal_newlines(_)
universal_newlines(text) ==
    IF text = <<>> THEN <<>>
    ELSE IF text[1] = 13
    THEN <<10>> \o universal_newlines(
                      IF Len(text) >= 2 /\ text[2] = 10
                      THEN SubSeq(text, 3, Len(text))
                      ELSE Tail(text))
    ELSE <<text[1]>> \o universal_newlines(Tail(text))

\* the text from character i up to and with the first newline
RECURSIVE line_from(_, _)
line_from(text, i) ==
    IF i > Len(text) THEN <<>>
    ELSE IF text[i] = 10 THEN <<10>>
    ELSE <<text[i]>> \o line_from(text, i + 1)

\* f.readline() of the file with these bytes, read from character i on
readline(content, i) ==
    line_from(universal_newlines(utf8_decode(content, 1).text), i)

RECURSIVE lstrip(_)
lstrip(line) ==
    IF line /= <<>> /\ IsSpace(Head(line)) THEN lstrip(Tail(line)) ELSE line

RECURSIVE rstrip(_)
rstrip(line) ==
    IF line /= <<>> /\ IsSpace(line[Len(line)])
    THEN rstrip(SubSeq(line, 1, Len(line) - 1))
    ELSE line

strip(line) == rstrip(lstrip(line))

\* f.readline() returns: no invalid sequence in the chunk, and a sequence
\* cut off by the end of the file is only met, and raises, when the line does
\* not end before it
decodable(content) ==
    \E d \in {utf8_decode(content, 1)} :
        d.ok /\ (d.truncated => has_newline(d.text))

first_line_of(content) == strip(readline(content, 1))


(***************************************************************************)
(* A file at the output path.  A CSV file is either absent, unreadable (a  *)
(* zero-byte file: pandas raises EmptyDataError) or a table with a header  *)
(* and rows of cell texts.                                                 *)
(***************************************************************************)
ColumnNames == <<"name", "age", "city">>
\* the cell texts explored in column j
RawCells(j) ==
    IF j = 1 THEN {"", " ", "  ", "a", "b"} ELSE {"", " ", "  ", "null", "30"}

NoFile == [exists |-> FALSE, readable |-> FALSE, columns |-> <<>>, rows |-> <<>>]
ZeroByteFile == [exists |-> TRUE, readable |-> FALSE, columns |-> <<>>, rows |-> <<>>]
Table(columns, rows) ==
    [exists |-> TRUE, readable |-> TRUE, columns |-> columns, rows |-> rows]

NaN == "NaN"

\* the texts pd.read_csv reads as missing by default (na_values unset,
\* keep_default_na=True)
DefaultNaValues ==
    {"", "#N/A", "#N/A N/A", "#NA", "-1.#IND", "-1.#QNAN", "-NaN", "-nan",
     "1.#IND", "1.#QNAN", "<NA>", "N/A", "NA", "NULL", "NaN", "None", "n/a",
     "nan", "null"}

na_filter(cell) == IF cell \in DefaultNaValues THEN NaN ELSE cell

\* the texts of 1 to n spaces and tabs
RECURSIVE WhitespaceTexts(_)
WhitespaceTexts(n) ==
    IF n = 0 THEN {}
    ELSE {" ", "\t"}
         \cup {s \o c : s \in WhitespaceTexts(n - 1), c \in {" ", "\t"}}

WhitespaceOnly == WhitespaceTexts(MaxSpaces)

\* skip_blank_lines=True: a line that holds only spaces and tabs is no row.
\* Only a row of one cell gives such a line: a row of more cells has a comma,
\* and an empty single cell is written as "" and is read as a missing value
blank_line(row) == Len(row) = 1 /\ row[1] \in WhitespaceOnly

RECURSIVE skip_blank_lines(_)
skip_blank_lines(rows) ==
    IF rows = <<>> THEN <<>>
    ELSE (IF blank_line(Head(rows)) THEN <<>> ELSE <<Head(rows)>>)
         \o skip_blank_lines(Tail(rows))

read_csv(file) ==
    LET lines == skip_blank_lines(file.rows) IN
    [columns |-> file.columns,
     rows |-> [r \in 1..Len(lines) |->
                 [j \in 1..Len(lines[r]) |-> na_filter(lines[r][j])]]]

\* ', '.join(names)
RECURSIVE join(_)
join(names) ==
    IF names = <<>> THEN ""
    ELSE IF Len(names) = 1 THEN names[1]
    ELSE names[1] \o ", " \o join(Tail(names))

\* has_data = df[column].notna() & (df[column] != '') & (df[column] != ' ')
has_data(df, j) ==
    \E r \in 1..Len(df.rows) :
        df.rows[r][j] /= NaN /\ df.rows[r][j] /= "" /\ df.rows[r][j] /= " "

RECURSIVE empty_columns(_, _)
empty_columns(df, j) ==
    IF j > Len(df.columns) THEN <<>>
    ELSE (IF has_data(df, j) THEN <<>> ELSE <<df.columns[j]>>)
         \o empty_columns(df, j + 1)

validate_csv(file) ==
    IF ~file.exists
    THEN [success |-> FALSE,
          message |-> "CSV validation failed: No such file or directory"]
    ELSE IF ~file.readable
    THEN [success |-> FALSE,
          message |-> "CSV validation failed: No columns to parse from file"]
    ELSE LET df == read_csv(file) IN
         IF Len(df.rows) = 0 \/ Len(df.columns) = 0
         THEN [success |-> FALSE, message |-> "CSV file is empty"]
         ELSE IF \A j \in 1..Len(df.columns) : ~has_data(df, j)
         THEN [success |-> FALSE,
               message |-> "All columns in CSV contain no data"]
         ELSE IF empty_columns(df, 1) /= <<>>
         THEN [success |-> TRUE,
               message |-> "Warning: The following columns contain no data: "
                           \o join(empty_columns(df, 1))]
         ELSE [success |-> TRUE, message |-> "All columns contain some data"]


(***************************************************************************)
(* The state of one invocation of jsonl_to_csv and of the files it uses.   *)
(***************************************************************************)
VARIABLES
    request,          \* the HTTP request: method, upload, file_base64, file_name
    pc,               \* position of the handler
    max_attempts,     \* Config.MAX_RETRY_ATTEMPTS of this deployment
    attempt_number,   \* the retry decorator's attempt counter
    model_calls,      \* number of calls of call_ai_model
    sandbox_runs,     \* number of calls of execute_python_code
    loop_validations, \* number of calls of validate_csv by generate_and_execute
    feedback,         \* error_message argument of the latest call_ai_model
    prev_failure,     \* failure message of the attempt before the latest one
    last_failure,     \* failure message of the latest attempt
    attempt_log,      \* per attempt: did it succeed overall
    result,           \* tuple returned by the latest generate_and_execute body
    validation,       \* (success, message) of the latest validate_csv
    input_created,    \* the invocation created its temporary input file
    fs_input,         \* the temporary input file exists
    fs_output,        \* the file at output_path
    loop_exit,        \* how the decorated generate_and_execute ended
    upload_state,     \* upload_to_gcs: not_called, ok or failed
    sign_state,       \* generate_signed_url: not_called, ok or failed
    unlink_failed,    \* os.unlink raised during the cleanup
    response,         \* the HTTP response, once returned
    text_calls,       \* number of calls of call_ai_model that returned text
    invocations,      \* two invocations sharing one directory of temp files
    tmp_files,        \* the files of that directory and who wrote them
    api_answer,       \* what the generation service does on one call
    model_result,     \* what that call of call_ai_model did
    ai_response,      \* a response text given to extract_python_code
    extracted,        \* the code extract_python_code returned for it
    sandbox_code,     \* the code given to one execute_python_code
    sandbox_run,      \* what happens during that call
    sandbox_result    \* what that call of execute_python_code did

\* the variables of the functions that are also examined on their own
invocation_vars == <<invocations, tmp_files>>
model_call_vars == <<api_answer, model_result>>
extract_vars == <<ai_response, extracted>>
sandbox_vars == <<sandbox_code, sandbox_run, sandbox_result>>

vars == <<request, pc, max_attempts, attempt_number, model_calls, sandbox_runs,
          loop_validations, feedback, prev_failure, last_failure, attempt_log,
          result, validation, input_created, fs_input, fs_output,
          loop_exit, upload_state, sign_state, unlink_failed, response,
          text_calls, invocation_vars, model_call_vars, extract_vars,
          sandbox_vars>>

NoResponse == [status |-> 0, keys |-> {}, error_details |-> {}]
NoResult == [code |-> None, success |-> FALSE, message |-> None,
             validation_success |-> FALSE, output_exists |-> FALSE]
NoValidation == [success |-> FALSE, message |-> None]

\* a path is a directory and a base name
NoPath == [dir |-> "", base |-> ""]
NoFileName == [stem |-> "", ext |-> ""]
\* an invocation that has not started
NoInvocation ==
    [pc |-> "recv", file_name |-> NoFileName, input_path |-> NoPath,
     output_path |-> NoPath, script_path |-> NoPath, attempt_number |-> 0,
     validated_writer |-> 0, gcs_path |-> FALSE, success |-> FALSE,
     output_exists |-> FALSE]
Invocations == {1, 2}

\* a key of the JSON response that is absent
NoList == [present |-> FALSE, is_list |-> FALSE, items |-> <<>>]
NoAnswer == [token |-> FALSE, transport_ok |-> FALSE,
             choices |-> NoList, candidates |-> NoList]
NotCalled == [called |-> FALSE, raised |-> FALSE, is_none |-> TRUE,
              text |-> <<"">>, request_sent |-> FALSE]
NotExtracted == [called |-> FALSE, code |-> ""]
NoRun == [kind |-> "exit0", op |-> "keep", file |-> NoFile,
          script |-> "file"]
NotExecuted == [called |-> FALSE, raised |-> FALSE, success |-> FALSE,
                message |-> None, script_exists |-> FALSE,
                input_path |-> <<>>, output_path |-> <<>>,
                executed |-> FALSE, script |-> <<>>]

\* the variables of the functions examined on their own, at rest
InvocationsIdle ==
    /\ invocations = [i \in Invocations |-> NoInvocation]
    /\ tmp_files = {}
ModelCallIdle == api_answer = NoAnswer /\ model_result = NotCalled
ExtractIdle == ai_response = <<"">> /\ extracted = NotExtracted
SandboxIdle ==
    /\ sandbox_code = <<>>
    /\ sandbox_run = NoRun
    /\ sandbox_result = NotExecuted

(***************************************************************************)
(* Inputs of the request handler.                                          *)
(***************************************************************************)
Methods == {"GET", "POST"}

\* uploaded file contents: empty, a blank first line ended by '\n', a blank
\* first line ended by '\r', a blank first line followed by a sequence the
\* end of the file cuts off, one JSON line with a two-byte character ended
\* by '\r\n'
FileSamples == {<<>>, <<32, 10, 123>>, <<13, 123>>, <<10, 237, 160>>,
                <<123, 195, 169, 125, 13, 10>>}

\* file_base64 values: "QQ==" (b'A'), "Cg==" (b'\n'), "QQ=" (bad padding),
\* "QQ==!" (a character outside the alphabet), "gQ==" (b'\x81')
B64Samples == {<<"Q", "Q", "=", "=">>, <<"C", "g", "=", "=">>,
               <<"Q", "Q", "=">>, <<"Q", "Q", "=", "=", "!">>,
               <<"g", "Q", "=", "=">>}

\* the writing of the temporary input file (lines 342-343 and 360-362):
\* done, NamedTemporaryFile raises, or file.save / temp_input.write raises
\* after the file was created
SaveOutcomes == {"ok", "create_exception", "write_exception"}

\* parameters_ok: lines 312-333 read the body and its parameters without an
\* exception; false for a JSON body that cannot be parsed or is no object,
\* or that holds a parameter of another type than text
Requests ==
    {[method |-> m, parameters_ok |-> p, has_file |-> hf, file |-> f,
      has_file_base64 |-> hb, file_base64 |-> b, has_file_name |-> hn,
      save |-> sv] :
        m \in Methods, p \in BOOLEAN, hf \in BOOLEAN, f \in FileSamples,
        hb \in BOOLEAN, b \in B64Samples, hn \in BOOLEAN,
        sv \in SaveOutcomes}

\* an absent field carries no value; without a file nothing is saved
WellFormedRequest(r) ==
    /\ (~r.has_file => r.file = <<>>)
    /\ (~r.has_file_base64 => r.file_base64 = <<"Q", "Q", "=", "=">>)
    /\ (~r.has_file /\ ~r.has_file_base64 => r.save = "ok")

\* tables a generated script may write
GoodTable == Table(<<"name", "age">>, << <<"a", "30">> >>)
\* a file an earlier request left at output_path: no script of this
\* invocation writes these rows
StaleTable == Table(<<"name", "age">>, << <<"b", "30">> >>)
MainTables ==
    {ZeroByteFile,
     Table(<<"name", "age">>, <<>>),
     Table(<<"name", "age">>, << <<"", " ">> >>),
     Table(<<"name", "age">>, << <<"a", "">> >>),
     GoodTable}

Init ==
    /\ request \in {r \in Requests : WellFormedRequest(r)}
    /\ pc = "recv"
    /\ max_attempts \in 1..MaxAttemptsBound
    /\ attempt_number = 0
    /\ model_calls = 0
    /\ sandbox_runs = 0
    /\ loop_validations = 0
    /\ feedback = None
    /\ prev_failure = None
    /\ last_failure = None
    /\ attempt_log = <<>>
    /\ result = NoResult
    /\ validation = NoValidation
    /\ input_created = FALSE
    /\ fs_input = FALSE
    /\ fs_output \in {NoFile, StaleTable}
    /\ loop_exit = "none"
    /\ upload_state = "not_called"
    /\ sign_state = "not_called"
    /\ unlink_failed = FALSE
    /\ response = NoResponse
    /\ text_calls = 0
    /\ InvocationsIdle
    /\ ModelCallIdle
    /\ ExtractIdle
    /\ SandboxIdle


(***************************************************************************)
(* jsonl_to_csv, from the method check to the start of the retry loop:     *)
(* the request's file is stored in a temporary input file and its first    *)
(* line is read.                                                           *)
(***************************************************************************)
\* the temporary input file the request leads to, if any (lines 338-372).
\* An exception while the upload is saved is caught by the outer except
\* (500); the base64 branch has its own except (lines 366-368), which
\* answers 400 for an exception of the decoding and of the writing alike
save_input(r) ==
    IF r.has_file
    THEN CASE r.save = "create_exception" ->
                 [status |-> 500, created |-> FALSE, content |-> <<>>]
           [] r.save = "write_exception" ->
                 [status |-> 500, created |-> TRUE, content |-> <<>>]
           [] OTHER -> [status |-> 0, created |-> TRUE, content |-> r.file]
    ELSE IF r.has_file_base64
    THEN IF ~r.has_file_name
         THEN [status |-> 400, created |-> FALSE, content |-> <<>>]
         ELSE IF ~b64decode(r.file_base64).ok
         THEN [status |-> 400, created |-> FALSE, content |-> <<>>]
         ELSE CASE r.save = "create_exception" ->
                     [status |-> 400, created |-> FALSE, content |-> <<>>]
                [] r.save = "write_exception" ->
                     [status |-> 400, created |-> TRUE, content |-> <<>>]
                [] OTHER ->
                     [status |-> 0, created |-> TRUE,
                      content |-> b64decode(r.file_base64).data]
    ELSE [status |-> 400, created |-> FALSE, content |-> <<>>]

\* status 0: the request passes the input checks
check_input(r) ==
    IF r.method /= "POST"
    THEN [status |-> 400, created |-> FALSE, content |-> <<>>]
    ELSE IF ~r.parameters_ok
    THEN [status |-> 500, created |-> FALSE, content |-> <<>>]
    ELSE LET saved == save_input(r) IN
         IF saved.status /= 0 THEN saved
         ELSE IF ~decodable(saved.content)
         THEN [saved EXCEPT !.status = 500]
         ELSE IF first_line_of(saved.content) = <<>>
         THEN [saved EXCEPT !.status = 400]
         ELSE saved

\* mutant: the body of the 500 response has lost its run_id
ErrorResponse_without_run_id(status) ==
    [status |-> status,
     keys |-> IF status = 500 THEN {"error", "success"} ELSE {"error"},
     error_details |-> {}]

ErrorResponse(status) ==
    [status |-> status,
     keys |-> IF status = 500 THEN {"error", "success", "run_id"} ELSE {"error"},
     error_details |-> {}]

jsonl_to_csv_receive ==
    /\ pc = "recv"
    /\ LET checked == check_input(request) IN
         /\ input_created' = checked.created
         /\ fs_input' = checked.created
         /\ IF checked.status = 0
            THEN /\ pc' = "loop"
                 /\ attempt_number' = 1
                 /\ response' = response
            ELSE /\ pc' = "done"
                 /\ attempt_number' = attempt_number
                 /\ response' = ErrorResponse(checked.status)
    /\ UNCHANGED <<request, max_attempts, model_calls, sandbox_runs,
                   loop_validations, feedback, prev_failure, last_failure,
                   attempt_log, result, validation, fs_output, loop_exit,
                   upload_state, sign_state, unlink_failed, text_calls>>
    /\ UNCHANGED <<invocation_vars, model_call_vars, extract_vars, sandbox_vars>>


(***************************************************************************)
(* extract_python_code.  A response text is the sequence of its lines      *)
(* (ai_response.split('\n')); the code returned is a string.  A TLA+ string *)
(* cannot hold a backquote: the fence ``` is written ''' in the lines.      *)
(***************************************************************************)
Lines == {"'''python", "'''", "'''json", "import json", ""}

\* the line is "'''python" followed by the line end: the regex can open here
opens_fence(line) == line = "'''python"
\* the line starts with "'''": the regex can close here
starts_with_fence(line) == line \in {"'''python", "'''", "'''json"}
\* line.strip() == '```python' or line.strip() == '```'
bare_fence(line) == line \in {"'''python", "'''"}
\* '```' in line
contains_fence(line) == line \in {"'''python", "'''", "'''json"}

\* '\n'.join(lines)
RECURSIVE join_lines(_)
join_lines(lines) ==
    IF lines = <<>> THEN ""
    ELSE IF Len(lines) = 1 THEN lines[1]
    ELSE lines[1] \o "\n" \o join_lines(Tail(lines))

\* least index of S, or 0
first_of(S) == IF S = {} THEN 0 ELSE CHOOSE i \in S : \A j \in S : i <= j
\* greatest index of S, or 0
last_of(S) == IF S = {} THEN 0 ELSE CHOOSE i \in S : \A j \in S : i >= j

\* re.search(r'```python\s+(.*?)\s+```', text, re.DOTALL) tried at the opening
\* line i: \s+ takes the line end and the empty lines that follow, the lazy
\* group runs from the first non-empty line p to the last non-empty line
\* before the next line that starts with a fence; when there is none and p
\* itself starts with a fence after an empty line, the group is empty
match_at(text, i) ==
    LET p == first_of({k \in (i + 1)..Len(text) : text[k] /= ""})
        q == first_of({k \in (p + 1)..Len(text) : starts_with_fence(text[k])})
        t == last_of({k \in p..(q - 1) : text[k] /= ""})
    IN  IF p = 0 THEN [found |-> FALSE, group |-> ""]
        ELSE IF q /= 0
        THEN [found |-> TRUE, group |-> join_lines(SubSeq(text, p, t))]
        ELSE IF p > i + 1 /\ starts_with_fence(text[p])
        THEN [found |-> TRUE, group |-> ""]
        ELSE [found |-> FALSE, group |-> ""]

code_block_match(text) ==
    LET i == first_of({k \in 1..Len(text) :
                          opens_fence(text[k]) /\ match_at(text, k).found})
    IN  IF i = 0 THEN [found |-> FALSE, group |-> ""] ELSE match_at(text, i)

\* the line-by-line fallback: the lines kept
RECURSIVE code_lines(_, _, _)
code_lines(text, k, in_code) ==
    IF k > Len(text) THEN <<>>
    ELSE IF bare_fence(text[k]) THEN code_lines(text, k + 1, ~in_code)
    ELSE IF in_code \/ ~contains_fence(text[k])
    THEN <<text[k]>> \o code_lines(text, k + 1, in_code)
    ELSE code_lines(text, k + 1, in_code)

\* mutant: with nothing kept, the empty string is returned
extract_python_code_empty_fallback(text) ==
    IF code_block_match(text).found THEN code_block_match(text).group
    ELSE IF code_lines(text, 1, FALSE) /= <<>>
    THEN join_lines(code_lines(text, 1, FALSE))
    ELSE ""

extract_python_code(text) ==
    IF code_block_match(text).found THEN code_block_match(text).group
    ELSE IF code_lines(text, 1, FALSE) /= <<>>
    THEN join_lines(code_lines(text, 1, FALSE))
    ELSE join_lines(text)

(***************************************************************************)
(* call_ai_model: what the generation service answers decides the text.    *)
(***************************************************************************)
ModelTexts == {<<"'''python", "import json", "'''">>, <<"import json">>, <<"">>}

\* the value under 'choices' or 'candidates' of the JSON response: absent
\* (NoList), null, or a list of items.  An item is well formed when the
\* nested keys the code reads exist: message.content, content.parts[0].text
Item(text) == [well_formed |-> TRUE, text |-> text]
BadItem == [well_formed |-> FALSE, text |-> <<"">>]
List(items) == [present |-> TRUE, is_list |-> TRUE, items |-> items]
Null == [present |-> TRUE, is_list |-> FALSE, items |-> <<>>]

\* what one call meets: does get_access_token obtain a token, does the POST
\* come back without a transport or HTTP error, and the response's keys
Answer(token, transport_ok, choices, candidates) ==
    [token |-> token, transport_ok |-> transport_ok,
     choices |-> choices, candidates |-> candidates]

\* the answers met by the attempts of the retry loop
ApiOutcomes ==
    {Answer(FALSE, TRUE, NoList, NoList), Answer(TRUE, FALSE, NoList, NoList),
     Answer(TRUE, TRUE, NoList, NoList)}
    \cup {Answer(TRUE, TRUE, List(<<Item(c)>>), NoList) : c \in ModelTexts}
    \cup {Answer(TRUE, TRUE, NoList, List(<<Item(c)>>)) : c \in ModelTexts}

\* every exception inside is caught: the token or None
get_access_token(api) == IF api.token THEN "token" ELSE None

ReturnsNone == [raised |-> FALSE, is_none |-> TRUE, text |-> <<"">>]
Raises == [raised |-> TRUE, is_none |-> TRUE, text |-> <<"">>]
ReturnsText(text) == [raised |-> FALSE, is_none |-> FALSE, text |-> text]

\* mutant: 'candidates' is looked at before 'choices'
response_text_candidates_first(answer) ==
    IF answer.candidates.present /\ ~answer.candidates.is_list THEN Raises
    ELSE IF answer.candidates.present /\ Len(answer.candidates.items) > 0
    THEN IF answer.candidates.items[1].well_formed
         THEN ReturnsText(answer.candidates.items[1].text)
         ELSE Raises
    ELSE IF answer.choices.present /\ ~answer.choices.is_list THEN Raises
    ELSE IF answer.choices.present /\ Len(answer.choices.items) > 0
    THEN IF answer.choices.items[1].well_formed
         THEN ReturnsText(answer.choices.items[1].text)
         ELSE Raises
    ELSE ReturnsNone

\* lines 132-140 on the parsed response: len() of a null and the lookup of a
\* missing key or index raise
response_text(answer) ==
    IF answer.choices.present /\ ~answer.choices.is_list THEN Raises
    ELSE IF answer.choices.present /\ Len(answer.choices.items) > 0
    THEN IF answer.choices.items[1].well_formed
         THEN ReturnsText(answer.choices.items[1].text)
         ELSE Raises
    ELSE IF answer.candidates.present /\ ~answer.candidates.is_list THEN Raises
    ELSE IF answer.candidates.present /\ Len(answer.candidates.items) > 0
    THEN IF answer.candidates.items[1].well_formed
         THEN ReturnsText(answer.candidates.items[1].text)
         ELSE Raises
    ELSE ReturnsNone

\* what a call did: called, raised (an exception left the function), is_none
\* (it returned None), text (the text returned), request_sent
Outcome(returned, request_sent) ==
    [called |-> TRUE, raised |-> returned.raised, is_none |-> returned.is_none,
     text |-> returned.text, request_sent |-> request_sent]

\* mutant: the try of lines 124-144 has no except clause
call_ai_model_without_except(api) ==
    IF get_access_token(api) = None THEN Outcome(ReturnsNone, FALSE)
    ELSE IF ~api.transport_ok THEN Outcome(Raises, TRUE)
    ELSE Outcome(response_text(api), TRUE)

call_ai_model(api) ==
    IF get_access_token(api) = None THEN Outcome(ReturnsNone, FALSE)
    ELSE IF ~api.transport_ok THEN Outcome(ReturnsNone, TRUE)
    ELSE IF response_text(api).raised THEN Outcome(ReturnsNone, TRUE)
    ELSE Outcome(response_text(api), TRUE)

(***************************************************************************)
(* execute_python_code: the child process runs arbitrary generated code,   *)
(* so its exit status and what it does to the file at output_path are      *)
(* drawn from every possibility.                                           *)
(***************************************************************************)
\* the steps of execute_python_code before the child exits that can raise:
\* NamedTemporaryFile (line 174), temp_file.write(code) (line 175), the
\* rewriting of the script (lines 182-183), subprocess.run (lines 186-189)
RunExceptions == {"create_exception", "write_exception",
                  "rewrite_exception", "launch_exception"}

\* the ends of a run whose child process ran: exit status zero, another exit
\* status, or subprocess.run raising after the child has exited (text=True
\* decodes the captured output, which raises UnicodeDecodeError on output
\* that is not text)
ChildRan == {"exit0", "exit1", "decode_exception"}

\* what a child that ran leaves at the path of its script: the file, nothing
\* (it deleted the script), or a directory in its place
ScriptStates == {"file", "gone", "directory"}

\* kind: how the run ends; op and file: what the child does to the file at
\* output_path; script: what it leaves at the path of its script
RunOutcomes ==
    {[kind |-> k, op |-> "keep", file |-> NoFile, script |-> "file"] :
        k \in RunExceptions}
    \cup {[kind |-> k, op |-> o, file |-> NoFile, script |-> t] :
        k \in ChildRan, o \in {"keep", "delete"}, t \in ScriptStates}
    \cup {[kind |-> k, op |-> "write", file |-> f, script |-> t] :
        k \in ChildRan, f \in MainTables, t \in ScriptStates}

\* the finally clause of lines 202-205, which no except clause covers:
\* os.unlink is called when something exists at the path and raises when
\* that is a directory.  raised: the exception leaves execute_python_code;
\* script_exists: the path exists afterwards
finally_unlink(script) ==
    CASE script = "gone" -> [raised |-> FALSE, script_exists |-> FALSE]
      [] script = "directory" -> [raised |-> TRUE, script_exists |-> TRUE]
      [] OTHER -> [raised |-> FALSE, script_exists |-> FALSE]

\* raised: an exception leaves execute_python_code (lines 174-176 are
\* outside its try, so neither the except nor the finally clause is
\* reached; an exception of the finally clause replaces the value being
\* returned); otherwise the (success, message) pair returned.
\* script_exists: the temporary script is still there when the function is
\* left
execute_python_code(code, run) ==
    LET finally == finally_unlink(run.script) IN
    CASE run.kind = "create_exception" ->
            [raised |-> TRUE, success |-> FALSE, message |-> "OSError",
             script_exists |-> FALSE]
      [] run.kind = "write_exception" ->
            [raised |-> TRUE, success |-> FALSE, message |-> "OSError",
             script_exists |-> TRUE]
      [] finally.raised ->
            [raised |-> TRUE, success |-> FALSE,
             message |-> "IsADirectoryError",
             script_exists |-> finally.script_exists]
      [] run.kind \in {"rewrite_exception", "launch_exception"} ->
            [raised |-> FALSE, success |-> FALSE, message |-> "OSError",
             script_exists |-> finally.script_exists]
      [] run.kind = "decode_exception" ->
            [raised |-> FALSE, success |-> FALSE,
             message |-> "UnicodeDecodeError",
             script_exists |-> finally.script_exists]
      [] run.kind = "exit1" ->
            [raised |-> FALSE, success |-> FALSE, message |-> "Traceback",
             script_exists |-> finally.script_exists]
      [] OTHER ->
            [raised |-> FALSE, success |-> TRUE, message |-> "",
             script_exists |-> finally.script_exists]

\* the file at output_path after the run
run_effect(file, run) ==
    CASE run.op = "write" -> run.file
      [] run.op = "delete" -> NoFile
      [] OTHER -> file

(***************************************************************************)
(* generate_and_execute and its retry decorator.                           *)
(***************************************************************************)
\* mutant: the test of output_exists has lost its "not"
is_failure_result_output_inverted(r) ==
    ~r.success \/ ~r.validation_success \/ r.output_exists

is_failure_result(r) ==
    ~r.success \/ ~r.validation_success \/ ~r.output_exists

\* success and validation_success and output_exists (line 423)
converted(r) == r.success /\ r.validation_success /\ r.output_exists

\* mutant: after the last attempt the decorator returns the failed result
\* in place of raising RetryError
retry_decision_returns_last_result(r, n, stop_after) ==
    IF ~is_failure_result(r) THEN "return"
    ELSE IF n >= stop_after THEN "return"
    ELSE "retry"

\* mutant: the stop condition lets one attempt more through
retry_decision_off_by_one(r, n, stop_after) ==
    IF ~is_failure_result(r) THEN "return"
    ELSE IF n > stop_after THEN "raise"
    ELSE "retry"

\* the decorator after an attempt that returned r: return r, call again, or
\* stop with RetryError
retry_decision(r, n, stop_after) ==
    IF ~is_failure_result(r) THEN "return"
    ELSE IF n >= stop_after THEN "raise"
    ELSE "retry"

\* previous_error as the decorator passes it on each call: the argument of
\* the one call in jsonl_to_csv
previous_error_argument(failure) == None

\* generated_code is truthy (line 218): the call returned a non-empty text
returned_text(generated_code) ==
    ~generated_code.is_none /\ generated_code.text /= <<"">>

\* mutant: the sandbox is run also when the model returned no text
generate_and_execute_body_runs_without_code(api, run, file) ==
    LET generated_code == call_ai_model(api)
        clean_code == extract_python_code(generated_code.text)
        executed == execute_python_code(clean_code, run)
        file_after == run_effect(file, run)
        output_exists == file_after.exists
        validated == executed.success /\ output_exists
        checked == validate_csv(file_after)
    IN  IF ~returned_text(generated_code)
        THEN [raised |-> FALSE, ran |-> TRUE, validated |-> FALSE,
              file |-> file, validation |-> NoValidation,
              result |-> [code |-> None, success |-> FALSE,
                          message |-> "Failed to generate code from AI model",
                          validation_success |-> FALSE,
                          output_exists |-> FALSE]]
        ELSE IF executed.raised
        THEN [raised |-> TRUE, ran |-> TRUE, validated |-> FALSE,
              file |-> file_after, validation |-> NoValidation,
              result |-> NoResult]
        ELSE [raised |-> FALSE, ran |-> TRUE, validated |-> validated,
              file |-> file_after,
              validation |-> IF validated THEN checked ELSE NoValidation,
              result |-> [code |-> clean_code,
                          success |-> executed.success,
                          message |-> executed.message,
                          validation_success |->
                              IF validated THEN checked.success ELSE FALSE,
                          output_exists |-> output_exists]]

\* the body of generate_and_execute: the tuple it returns and the file left
generate_and_execute_body(api, run, file) ==
    LET generated_code == call_ai_model(api)
        clean_code == extract_python_code(generated_code.text)
        executed == execute_python_code(clean_code, run)
        file_after == run_effect(file, run)
        output_exists == file_after.exists
        validated == executed.success /\ output_exists
        checked == validate_csv(file_after)
    IN  IF ~returned_text(generated_code)
        THEN [raised |-> FALSE, ran |-> FALSE, validated |-> FALSE,
              file |-> file, validation |-> NoValidation,
              result |-> [code |-> None, success |-> FALSE,
                          message |-> "Failed to generate code from AI model",
                          validation_success |-> FALSE,
                          output_exists |-> FALSE]]
        ELSE IF executed.raised
        THEN [raised |-> TRUE, ran |-> TRUE, validated |-> FALSE,
              file |-> file_after, validation |-> NoValidation,
              result |-> NoResult]
        ELSE [raised |-> FALSE, ran |-> TRUE, validated |-> validated,
              file |-> file_after,
              validation |-> IF validated THEN checked ELSE NoValidation,
              result |-> [code |-> clean_code,
                          success |-> executed.success,
                          message |-> executed.message,
                          validation_success |->
                              IF validated THEN checked.success ELSE FALSE,
                          output_exists |-> output_exists]]

\* what an attempt has to tell the next one: the execution error if the
\* execution failed, otherwise the validation message
failure_message(body) ==
    IF ~body.result.success THEN body.result.message
    ELSE IF body.validated THEN body.validation.message
    ELSE "CSV file was not created"

generate_and_execute ==
    /\ pc = "loop"
    /\ \E api \in ApiOutcomes, run \in RunOutcomes :
       \E body \in {generate_and_execute_body(api, run, fs_output)} :
         LET decision == IF body.raised THEN "raise"
                         ELSE retry_decision(body.result, attempt_number,
                                             max_attempts)
         IN  /\ model_calls' = model_calls + 1
             /\ text_calls' =
                    text_calls
                    + (IF returned_text(call_ai_model(api)) THEN 1 ELSE 0)
             /\ feedback' = previous_error_argument(last_failure)
             /\ sandbox_runs' = sandbox_runs + (IF body.ran THEN 1 ELSE 0)
             /\ loop_validations' =
                    loop_validations + (IF body.validated THEN 1 ELSE 0)
             /\ fs_output' = body.file
             /\ result' = body.result
             /\ validation' = body.validation
             /\ prev_failure' = last_failure
             /\ last_failure' = IF body.raised THEN "OSError"
                                ELSE failure_message(body)
             /\ attempt_log' =
                    Append(attempt_log, ~body.raised /\ converted(body.result))
             /\ attempt_number' =
                    IF decision = "retry" THEN attempt_number + 1
                    ELSE attempt_number
             /\ pc' = CASE decision = "return" -> "returned"
                        [] decision = "raise" -> "raised"
                        [] OTHER -> "loop"
             /\ loop_exit' = CASE body.raised -> "exception"
                               [] decision = "return" -> "return"
                               [] decision = "raise" -> "RetryError"
                               [] OTHER -> loop_exit
    /\ UNCHANGED <<request, max_attempts, input_created, fs_input,
                   upload_state, sign_state, unlink_failed, response>>
    /\ UNCHANGED <<invocation_vars, model_call_vars, extract_vars, sandbox_vars>>

(***************************************************************************)
(* jsonl_to_csv after generate_and_execute returned: the storage calls,    *)
(* the response body, the cleanup.                                         *)
(***************************************************************************)
\* mutant: the signed URL is requested whether or not the upload succeeded
success_branch_always_signs(file, upload_success, signed_url_success) ==
    IF ~file.exists \/ ~file.readable
    THEN [keys |-> {"error"}, upload |-> "not_called", sign |-> "not_called"]
    ELSE [keys |-> (IF upload_success THEN {"gcs_path"} ELSE {"gcs_error"})
                   \cup (IF signed_url_success
                         THEN {"signed_url", "signed_url_expiration_seconds"}
                         ELSE {"signed_url_error"}),
          upload |-> IF upload_success THEN "ok" ELSE "failed",
          sign |-> IF signed_url_success THEN "ok" ELSE "failed"]

\* the success branch (lines 423-465): the storage calls made and the keys
\* of the response body
success_branch(file, upload_success, signed_url_success) ==
    IF ~file.exists \/ ~file.readable
    THEN [keys |-> {"error"}, upload |-> "not_called", sign |-> "not_called"]
    ELSE IF ~upload_success
    THEN [keys |-> {"gcs_error"}, upload |-> "failed", sign |-> "not_called"]
    ELSE IF signed_url_success
    THEN [keys |-> {"gcs_path", "signed_url", "signed_url_expiration_seconds"},
          upload |-> "ok", sign |-> "ok"]
    ELSE [keys |-> {"gcs_path", "signed_url_error"},
          upload |-> "ok", sign |-> "failed"]

\* keys of error_details on the failure branch (lines 466-477)
error_details_keys(r) ==
    (IF ~r.success THEN {"execution_error"} ELSE {})
    \cup (IF ~r.validation_success THEN {"validation_error"} ELSE {})
    \cup (IF ~r.output_exists THEN {"file_error"} ELSE {})

response_body(r, file, upload_success, signed_url_success) ==
    IF converted(r)
    THEN LET branch == success_branch(file, upload_success, signed_url_success)
         IN  [status |-> 200, keys |-> branch.keys, error_details |-> {},
              upload |-> branch.upload, sign |-> branch.sign]
    ELSE [status |-> 200, keys |-> {"error_details"},
          error_details |-> error_details_keys(r),
          upload |-> "not_called", sign |-> "not_called"]

\* the cleanup of lines 479-488; unlink_raises names the os.unlink call that
\* raises, if any
cleanup_input(exists, unlink_raises) ==
    IF exists /\ unlink_raises /= "input" THEN FALSE ELSE exists

cleanup_output(file, input_exists, keys, unlink_raises) ==
    IF input_exists /\ unlink_raises = "input" THEN file
    ELSE IF file.exists /\ "gcs_path" \in keys /\ unlink_raises /= "output"
    THEN NoFile
    ELSE file

jsonl_to_csv_respond ==
    /\ pc = "returned"
    /\ \E upload_success \in BOOLEAN, signed_url_success \in BOOLEAN,
          unlink_raises \in {"none", "input", "output"} :
         LET body == response_body(result, fs_output, upload_success,
                                   signed_url_success)
         IN  /\ upload_state' = body.upload
             /\ sign_state' = body.sign
             /\ response' = [status |-> body.status, keys |-> body.keys,
                             error_details |-> body.error_details]
             /\ fs_input' = cleanup_input(fs_input, unlink_raises)
             /\ fs_output' = cleanup_output(fs_output, fs_input, body.keys,
                                            unlink_raises)
             /\ unlink_failed' =
                    \/ fs_input /\ unlink_raises = "input"
                    \/ /\ fs_output.exists /\ "gcs_path" \in body.keys
                       /\ unlink_raises = "output"
    /\ pc' = "done"
    /\ UNCHANGED <<request, max_attempts, attempt_number, model_calls,
                   sandbox_runs, loop_validations, feedback, prev_failure,
                   last_failure, attempt_log, result, validation,
                   input_created, loop_exit, text_calls>>
    /\ UNCHANGED <<invocation_vars, model_call_vars, extract_vars, sandbox_vars>>

\* the except clause of lines 493-496: RetryError after the last failed
\* attempt, or an exception of the attempt itself
jsonl_to_csv_except ==
    /\ pc = "raised"
    /\ response' = ErrorResponse(500)
    /\ pc' = "done"
    /\ UNCHANGED <<request, max_attempts, attempt_number, model_calls,
                   sandbox_runs, loop_validations, feedback, prev_failure,
                   last_failure, attempt_log, result, validation,
                   input_created, fs_input, fs_output, loop_exit,
                   upload_state, sign_state, unlink_failed, text_calls>>
    /\ UNCHANGED <<invocation_vars, model_call_vars, extract_vars, sandbox_vars>>

Next ==
    \/ jsonl_to_csv_receive
    \/ generate_and_execute
    \/ jsonl_to_csv_respond
    \/ jsonl_to_csv_except

Spec == Init /\ [][Next]_vars

\* an upload that passes the input checks
AcceptedRequest ==
    [method |-> "POST", parameters_ok |-> TRUE, has_file |-> TRUE,
     file |-> <<123, 195, 169, 125, 13, 10>>, has_file_base64 |-> FALSE,
     file_base64 |-> <<"Q", "Q", "=", "=">>, has_file_name |-> FALSE,
     save |-> "ok"]

InitLive == Init /\ request = AcceptedRequest

\* the invocations of an accepted request, which all enter the retry loop.
\* generate_and_execute is sequential code: an attempt that can be made is
\* made and ends, given that the model call and the child process it waits
\* for come back with one of their outcomes (neither has a timeout)
SpecLive == InitLive /\ [][Next]_vars /\ WF_vars(generate_and_execute)

(***************************************************************************)
(* validate_csv on its own: every table of up to MaxRows rows over the     *)
(* columns name, age, city is validated once.                              *)
(***************************************************************************)
\* the rows over the first n columns: cell j is a raw cell of column j
RawRows(n) ==
    {row \in [1..n -> UNION {RawCells(j) : j \in 1..n}] :
        \A j \in 1..n : row[j] \in RawCells(j)}

\* the file is absent, a zero-byte file, or a table of k rows over the first
\* n columns
SomeTable(file) ==
    \/ file \in {NoFile, ZeroByteFile}
    \/ \E n \in 1..Len(ColumnNames), k \in 0..MaxRows :
          \E rows \in [1..k -> RawRows(n)] :
             file = Table(SubSeq(ColumnNames, 1, n), rows)

InitValidate ==
    /\ request = [method |-> "POST", parameters_ok |-> TRUE,
                  has_file |-> FALSE, file |-> <<>>,
                  has_file_base64 |-> FALSE,
                  file_base64 |-> <<"Q", "Q", "=", "=">>,
                  has_file_name |-> FALSE, save |-> "ok"]
    /\ pc = "validate"
    /\ max_attempts = 1
    /\ attempt_number = 0
    /\ model_calls = 0
    /\ sandbox_runs = 0
    /\ loop_validations = 0
    /\ feedback = None
    /\ prev_failure = None
    /\ last_failure = None
    /\ attempt_log = <<>>
    /\ result = NoResult
    /\ validation = NoValidation
    /\ input_created = FALSE
    /\ fs_input = FALSE
    /\ SomeTable(fs_output)
    /\ loop_exit = "none"
    /\ upload_state = "not_called"
    /\ sign_state = "not_called"
    /\ unlink_failed = FALSE
    /\ response = NoResponse
    /\ text_calls = 0
    /\ InvocationsIdle
    /\ ModelCallIdle
    /\ ExtractIdle
    /\ SandboxIdle

validate_csv_call ==
    /\ pc = "validate"
    /\ validation' = validate_csv(fs_output)
    /\ pc' = "validated"
    /\ UNCHANGED <<request, max_attempts, attempt_number, model_calls,
                   sandbox_runs, loop_validations, feedback, prev_failure,
                   last_failure, attempt_log, result, input_created,
                   fs_input, fs_output, loop_exit, upload_state,
                   sign_state, unlink_failed, response, text_calls>>
    /\ UNCHANGED <<invocation_vars, model_call_vars, extract_vars, sandbox_vars>>

NextValidate == validate_csv_call

SpecValidate == InitValidate /\ [][NextValidate]_vars

(***************************************************************************)
(* Two invocations of jsonl_to_csv served by one instance.  They share the *)
(* directory of temporary files; each saves its upload, runs the attempts  *)
(* of its retry loop and answers.                                          *)
(***************************************************************************)
\* tempfile.gettempdir()
TempDir == "/tmp"
\* secure_filename(...) of the uploads, split as os.path.splitext does
FileNames == {[stem |-> "data", ext |-> ".jsonl"],
              [stem |-> "rows", ext |-> ".jsonl"]}
\* the random part of the names tempfile.NamedTemporaryFile draws
TempNames == {"tmpa", "tmpb", "tmpc"}

dirname(path) == path.dir
path_join(dir, base) == [dir |-> dir, base |-> base]
splitext(file_name) == file_name.stem

\* the paths of the directory that exist
existing(files) == {f.path : f \in files}
\* the invocation whose process wrote the file at path
writer_of(files, path) == (CHOOSE f \in files : f.path = path).writer
write_file(files, path, i) ==
    {f \in files : f.path /= path} \cup {[path |-> path, writer |-> i]}
unlink(files, path) == {f \in files : f.path /= path}

\* NamedTemporaryFile(delete=False, suffix=...): a name no existing file has
NamedTemporaryFile(files, suffix) ==
    {path_join(TempDir, n \o suffix) : n \in TempNames} \ existing(files)

\* lines 338-379: the upload is saved, output_path is derived from its name
invocation_receive(i) ==
    /\ invocations[i].pc = "recv"
    /\ \E file_name \in FileNames :
       \E input_path \in NamedTemporaryFile(tmp_files, ".jsonl") :
         LET original_filename == splitext(file_name)
             output_path == path_join(dirname(input_path),
                                      original_filename \o ".csv")
         IN  /\ tmp_files' = write_file(tmp_files, input_path, i)
             /\ invocations' =
                    [invocations EXCEPT
                        ![i] = [@ EXCEPT !.pc = "loop",
                                         !.file_name = file_name,
                                         !.input_path = input_path,
                                         !.output_path = output_path,
                                         !.attempt_number = 1]]
    /\ UNCHANGED <<request, pc, max_attempts, attempt_number, model_calls,
                   sandbox_runs, loop_validations, feedback, prev_failure,
                   last_failure, attempt_log, result, validation,
                   input_created, fs_input, fs_output, loop_exit,
                   upload_state, sign_state, unlink_failed, response,
                   text_calls>>
    /\ UNCHANGED <<model_call_vars, extract_vars, sandbox_vars>>

\* execute_python_code, lines 174-183: the temporary script is created
invocation_script(i) ==
    /\ invocations[i].pc = "loop"
    /\ \E temp_file_path \in NamedTemporaryFile(tmp_files, ".py") :
         /\ tmp_files' = write_file(tmp_files, temp_file_path, i)
         /\ invocations' =
                [invocations EXCEPT
                    ![i] = [@ EXCEPT !.pc = "script",
                                     !.script_path = temp_file_path]]
    /\ UNCHANGED <<request, pc, max_attempts, attempt_number, model_calls,
                   sandbox_runs, loop_validations, feedback, prev_failure,
                   last_failure, attempt_log, result, validation,
                   input_created, fs_input, fs_output, loop_exit,
                   upload_state, sign_state, unlink_failed, response,
                   text_calls>>
    /\ UNCHANGED <<model_call_vars, extract_vars, sandbox_vars>>

\* lines 186-196: the child process runs; it writes output_path or not and
\* exits with status zero or not
invocation_child(i) ==
    /\ invocations[i].pc = "script"
    /\ \E exit_zero \in BOOLEAN, writes \in BOOLEAN :
         /\ tmp_files' =
                IF writes
                THEN write_file(tmp_files, invocations[i].output_path, i)
                ELSE tmp_files
         /\ invocations' =
                [invocations EXCEPT
                    ![i] = [@ EXCEPT !.pc = "ran", !.success = exit_zero]]
    /\ UNCHANGED <<request, pc, max_attempts, attempt_number, model_calls,
                   sandbox_runs, loop_validations, feedback, prev_failure,
                   last_failure, attempt_log, result, validation,
                   input_created, fs_input, fs_output, loop_exit,
                   upload_state, sign_state, unlink_failed, response,
                   text_calls>>
    /\ UNCHANGED <<model_call_vars, extract_vars, sandbox_vars>>

\* lines 202-205: the finally clause deletes the script
invocation_finally(i) ==
    /\ invocations[i].pc = "ran"
    /\ tmp_files' = unlink(tmp_files, invocations[i].script_path)
    /\ invocations' =
           [invocations EXCEPT
               ![i] = [@ EXCEPT !.pc = "left", !.script_path = NoPath]]
    /\ UNCHANGED <<request, pc, max_attempts, attempt_number, model_calls,
                   sandbox_runs, loop_validations, feedback, prev_failure,
                   last_failure, attempt_log, result, validation,
                   input_created, fs_input, fs_output, loop_exit,
                   upload_state, sign_state, unlink_failed, response,
                   text_calls>>
    /\ UNCHANGED <<model_call_vars, extract_vars, sandbox_vars>>

\* line 224: output_exists = os.path.exists(output_path)
invocation_exists(i) ==
    /\ invocations[i].pc = "left"
    /\ invocations' =
           [invocations EXCEPT
               ![i] = [@ EXCEPT
                   !.pc = "looked",
                   !.output_exists =
                       invocations[i].output_path \in existing(tmp_files)]]
    /\ UNCHANGED <<request, pc, max_attempts, attempt_number, model_calls,
                   sandbox_runs, loop_validations, feedback, prev_failure,
                   last_failure, attempt_log, result, validation,
                   input_created, fs_input, fs_output, loop_exit,
                   upload_state, sign_state, unlink_failed, response,
                   text_calls>>
    /\ UNCHANGED <<tmp_files, model_call_vars, extract_vars, sandbox_vars>>

\* lines 226-233: the file at output_path is validated when the run
\* succeeded and the file was found (validate_csv fails on a file that is no
\* longer there), the tuple is returned and the decorator decides
invocation_validate(i) ==
    /\ invocations[i].pc = "looked"
    /\ \E validation_success \in BOOLEAN :
         LET me == invocations[i]
             validated == me.success /\ me.output_exists
             readable == me.output_path \in existing(tmp_files)
             failed == ~me.success \/ ~me.output_exists
                       \/ ~validation_success
         IN  /\ validation_success => validated /\ readable
             /\ invocations' =
                    [invocations EXCEPT
                        ![i] = [@ EXCEPT
                            !.validated_writer =
                                IF validated /\ readable
                                THEN writer_of(tmp_files, me.output_path)
                                ELSE @,
                            !.attempt_number =
                                IF failed /\ @ < max_attempts
                                THEN @ + 1 ELSE @,
                            !.pc =
                                IF ~failed THEN "returned"
                                ELSE IF me.attempt_number >= max_attempts
                                THEN "raised"
                                ELSE "loop"]]
    /\ UNCHANGED <<request, pc, max_attempts, attempt_number, model_calls,
                   sandbox_runs, loop_validations, feedback, prev_failure,
                   last_failure, attempt_log, result, validation,
                   input_created, fs_input, fs_output, loop_exit,
                   upload_state, sign_state, unlink_failed, response,
                   text_calls>>
    /\ UNCHANGED <<tmp_files, model_call_vars, extract_vars, sandbox_vars>>

\* lines 423-441: the file at output_path is read and uploaded.  When the file
\* is no longer there, pd.read_csv raises at line 428, the error is put in the
\* response and nothing is uploaded; upload_to_gcs succeeds or not, and
\* response["gcs_path"] is set when it does
invocation_upload(i) ==
    /\ invocations[i].pc = "returned"
    /\ \E upload_success \in BOOLEAN :
         LET me == invocations[i]
             output_exists == me.output_path \in existing(tmp_files)
         IN  /\ ~output_exists => ~upload_success
             /\ invocations' =
                    [invocations EXCEPT
                        ![i] = [@ EXCEPT !.pc = "uploaded",
                                         !.gcs_path = upload_success]]
    /\ UNCHANGED <<request, pc, max_attempts, attempt_number, model_calls,
                   sandbox_runs, loop_validations, feedback, prev_failure,
                   last_failure, attempt_log, result, validation,
                   input_created, fs_input, fs_output, loop_exit,
                   upload_state, sign_state, unlink_failed, response,
                   text_calls>>
    /\ UNCHANGED <<tmp_files, model_call_vars, extract_vars, sandbox_vars>>

\* lines 443-481: the signed URL is asked for, which touches no temporary
\* file, then the cleanup deletes the input file
invocation_unlink_input(i) ==
    /\ invocations[i].pc = "uploaded"
    /\ tmp_files' = unlink(tmp_files, invocations[i].input_path)
    /\ invocations' = [invocations EXCEPT ![i] = [@ EXCEPT !.pc = "cleaning"]]
    /\ UNCHANGED <<request, pc, max_attempts, attempt_number, model_calls,
                   sandbox_runs, loop_validations, feedback, prev_failure,
                   last_failure, attempt_log, result, validation,
                   input_created, fs_input, fs_output, loop_exit,
                   upload_state, sign_state, unlink_failed, response,
                   text_calls>>
    /\ UNCHANGED <<model_call_vars, extract_vars, sandbox_vars>>

\* lines 483-491: the file at output_path is deleted when it exists and the
\* response has a gcs_path, and the response is returned
invocation_unlink_output(i) ==
    /\ invocations[i].pc = "cleaning"
    /\ LET me == invocations[i] IN
         tmp_files' =
             IF me.output_path \in existing(tmp_files) /\ me.gcs_path
             THEN unlink(tmp_files, me.output_path)
             ELSE tmp_files
    /\ invocations' = [invocations EXCEPT ![i] = [@ EXCEPT !.pc = "done"]]
    /\ UNCHANGED <<request, pc, max_attempts, attempt_number, model_calls,
                   sandbox_runs, loop_validations, feedback, prev_failure,
                   last_failure, attempt_log, result, validation,
                   input_created, fs_input, fs_output, loop_exit,
                   upload_state, sign_state, unlink_failed, response,
                   text_calls>>
    /\ UNCHANGED <<model_call_vars, extract_vars, sandbox_vars>>

\* lines 493-496: RetryError is answered with 500, nothing is deleted
invocation_except(i) ==
    /\ invocations[i].pc = "raised"
    /\ invocations' = [invocations EXCEPT ![i] = [@ EXCEPT !.pc = "done"]]
    /\ UNCHANGED <<request, pc, max_attempts, attempt_number, model_calls,
                   sandbox_runs, loop_validations, feedback, prev_failure,
                   last_failure, attempt_log, result, validation,
                   input_created, fs_input, fs_output, loop_exit,
                   upload_state, sign_state, unlink_failed, response,
                   text_calls>>
    /\ UNCHANGED <<tmp_files, model_call_vars, extract_vars, sandbox_vars>>

\* the variables of the single invocation, at rest, but for the file at
\* output_path and Config.MAX_RETRY_ATTEMPTS
MainIdle ==
    /\ request = [method |-> "POST", parameters_ok |-> TRUE,
                  has_file |-> FALSE, file |-> <<>>,
                  has_file_base64 |-> FALSE,
                  file_base64 |-> <<"Q", "Q", "=", "=">>,
                  has_file_name |-> FALSE, save |-> "ok"]
    /\ pc = "idle"
    /\ attempt_number = 0
    /\ model_calls = 0
    /\ sandbox_runs = 0
    /\ loop_validations = 0
    /\ feedback = None
    /\ prev_failure = None
    /\ last_failure = None
    /\ attempt_log = <<>>
    /\ result = NoResult
    /\ validation = NoValidation
    /\ input_created = FALSE
    /\ fs_input = FALSE
    /\ loop_exit = "none"
    /\ upload_state = "not_called"
    /\ sign_state = "not_called"
    /\ unlink_failed = FALSE
    /\ response = NoResponse
    /\ text_calls = 0

InitInvocations ==
    /\ MainIdle
    /\ max_attempts \in 1..MaxAttemptsBound
    /\ fs_output = NoFile
    /\ InvocationsIdle
    /\ ModelCallIdle
    /\ ExtractIdle
    /\ SandboxIdle

NextInvocations ==
    \E i \in Invocations :
        \/ invocation_receive(i)
        \/ invocation_script(i)
        \/ invocation_child(i)
        \/ invocation_finally(i)
        \/ invocation_exists(i)
        \/ invocation_validate(i)
        \/ invocation_upload(i)
        \/ invocation_unlink_input(i)
        \/ invocation_unlink_output(i)
        \/ invocation_except(i)

SpecInvocations == InitInvocations /\ [][NextInvocations]_vars

(***************************************************************************)
(* call_ai_model on its own: one call for every answer of the service with *)
(* up to MaxItems items under 'choices' and under 'candidates'.            *)
(***************************************************************************)
Items == {BadItem} \cup {Item(text) : text \in ModelTexts}
ResponseLists ==
    {NoList, Null}
    \cup {List(items) : items \in UNION {[1..n -> Items] : n \in 0..MaxItems}}
ApiAnswers ==
    {Answer(token, transport_ok, choices, candidates) :
        token \in BOOLEAN, transport_ok \in BOOLEAN,
        choices \in ResponseLists, candidates \in ResponseLists}

InitModelCall ==
    /\ MainIdle
    /\ max_attempts = 1
    /\ fs_output = NoFile
    /\ InvocationsIdle
    /\ api_answer \in ApiAnswers
    /\ model_result = NotCalled
    /\ ExtractIdle
    /\ SandboxIdle

call_ai_model_call ==
    /\ ~model_result.called
    /\ model_result' = call_ai_model(api_answer)
    /\ UNCHANGED <<request, pc, max_attempts, attempt_number, model_calls,
                   sandbox_runs, loop_validations, feedback, prev_failure,
                   last_failure, attempt_log, result, validation,
                   input_created, fs_input, fs_output, loop_exit,
                   upload_state, sign_state, unlink_failed, response,
                   text_calls>>
    /\ UNCHANGED <<api_answer, invocation_vars, extract_vars, sandbox_vars>>

NextModelCall == call_ai_model_call

SpecModelCall == InitModelCall /\ [][NextModelCall]_vars

(***************************************************************************)
(* extract_python_code on its own: one call for every response text of up  *)
(* to MaxLines lines.                                                      *)
(***************************************************************************)
\* ai_response.split('\n') has at least one line
ResponseTexts == UNION {[1..n -> Lines] : n \in 1..MaxLines}

InitExtract ==
    /\ MainIdle
    /\ max_attempts = 1
    /\ fs_output = NoFile
    /\ InvocationsIdle
    /\ ModelCallIdle
    /\ ai_response \in ResponseTexts
    /\ extracted = NotExtracted
    /\ SandboxIdle

extract_python_code_call ==
    /\ ~extracted.called
    /\ extracted' = [called |-> TRUE, code |-> extract_python_code(ai_response)]
    /\ UNCHANGED <<request, pc, max_attempts, attempt_number, model_calls,
                   sandbox_runs, loop_validations, feedback, prev_failure,
                   last_failure, attempt_log, result, validation,
                   input_created, fs_input, fs_output, loop_exit,
                   upload_state, sign_state, unlink_failed, response,
                   text_calls>>
    /\ UNCHANGED <<ai_response, invocation_vars, model_call_vars,
                   sandbox_vars>>

NextExtract == extract_python_code_call

SpecExtract == InitExtract /\ [][NextExtract]_vars

(***************************************************************************)
(* execute_python_code on its own: one call for every code of up to        *)
(* MaxCodeLen pieces, every pair of paths, every course of the run and     *)
(* both states of the file at output_path.                                 *)
(***************************************************************************)
\* A code and a path are sequences of pieces of text.  Each placeholder is
\* two pieces, so that a code can hold a part of a placeholder, one
\* placeholder several times, or both.
InputPlaceholder == <<"/home/user/", "input.jsonl">>
OutputPlaceholder == <<"/home/user/", "output.csv">>
CodePieces == {"/home/user/", "input.jsonl", "output.csv", "import json"}

\* the codes handed over: up to MaxCodeLen pieces
SandboxCodes == UNION {[1..n -> CodePieces] : n \in 0..MaxCodeLen}

\* the pieces of a path of the directory of temporary files
path_pieces(path) == <<path.dir \o "/", path.base>>
\* input_path and output_path as jsonl_to_csv makes them (lines 343, 379)
SandboxInputPaths ==
    {path_pieces(path_join(TempDir, n \o ".jsonl")) : n \in TempNames}
SandboxOutputPaths ==
    {path_pieces(path_join(TempDir, splitext(f) \o ".csv")) : f \in FileNames}

\* s.replace(old, new): the occurrences of old are taken from the left and
\* do not overlap
RECURSIVE replace(_, _, _)
replace(s, old, new) ==
    IF Len(s) < Len(old) THEN s
    ELSE IF SubSeq(s, 1, Len(old)) = old
    THEN new \o replace(SubSeq(s, Len(old) + 1, Len(s)), old, new)
    ELSE <<s[1]>> \o replace(Tail(s), old, new)

\* mutant: only the input placeholder is rewritten
modified_code_input_only(code, input_path, output_path) ==
    replace(code, InputPlaceholder, input_path)

\* lines 179-180
modified_code(code, input_path, output_path) ==
    replace(replace(code, InputPlaceholder, input_path),
            OutputPlaceholder, output_path)

\* lines 182-189: the script is rewritten, then subprocess.run executes it;
\* nothing is executed when an exception came before the child was started
script_run(code, input_path, output_path, run) ==
    IF run.kind \in ChildRan
    THEN [executed |-> TRUE,
          script |-> modified_code(code, input_path, output_path)]
    ELSE [executed |-> FALSE, script |-> <<>>]

InitExecute ==
    /\ MainIdle
    /\ max_attempts = 1
    /\ fs_output \in {NoFile, StaleTable}
    /\ InvocationsIdle
    /\ ModelCallIdle
    /\ ExtractIdle
    /\ sandbox_code \in SandboxCodes
    /\ sandbox_run \in RunOutcomes
    /\ sandbox_result = NotExecuted

execute_python_code_call ==
    /\ ~sandbox_result.called
    /\ \E input_path \in SandboxInputPaths,
          output_path \in SandboxOutputPaths :
         LET executed == execute_python_code(sandbox_code, sandbox_run)
             ran == script_run(sandbox_code, input_path, output_path,
                               sandbox_run)
         IN  /\ sandbox_result' =
                    [called |-> TRUE, raised |-> executed.raised,
                     success |-> executed.success,
                     message |-> executed.message,
                     script_exists |-> executed.script_exists,
                     input_path |-> input_path, output_path |-> output_path,
                     executed |-> ran.executed, script |-> ran.script]
             /\ fs_output' = run_effect(fs_output, sandbox_run)
    /\ UNCHANGED <<request, pc, max_attempts, attempt_number, model_calls,
                   sandbox_runs, loop_validations, feedback, prev_failure,
                   last_failure, attempt_log, result, validation,
                   input_created, fs_input, loop_exit, upload_state,
                   sign_state, unlink_failed, response, text_calls>>
    /\ UNCHANGED <<sandbox_code, sandbox_run, invocation_vars,
                   model_call_vars, extract_vars>>

NextExecute == execute_python_code_call

SpecExecute == InitExecute /\ [][NextExecute]_vars

(***************************************************************************)
(* Properties.                                                             *)
(***************************************************************************)
\* every attempt the configuration allows was made and none succeeded
AllAttemptsFailed ==
    /\ Len(attempt_log) = max_attempts
    /\ \A k \in 1..Len(attempt_log) : ~attempt_log[k]

\* C1: one invocation of the decorated generate_and_execute issues at most
\* max_attempts calls of call_ai_model: while the loop is running fewer than
\* max_attempts calls were issued (attempt k is preceded by k - 1 calls), and
\* the loop terminates: once entered it is left, by a return, by RetryError
\* or by an exception of the attempt.
C1_AtMostMaxAttemptsModelCalls ==
    /\ [](/\ model_calls <= max_attempts
          /\ (pc = "loop" =>
                  /\ model_calls < max_attempts
                  /\ attempt_number = model_calls + 1)
          /\ (loop_exit /= "none" => pc /= "loop" /\ model_calls >= 1))
    /\ (pc = "loop" ~> (pc \in {"returned", "raised"} /\ loop_exit /= "none"))

\* C1 witness: the loop ended after exactly the largest number of calls
C1_Witness ==
    /\ pc = "raised"
    /\ loop_exit = "RetryError"
    /\ max_attempts = MaxAttemptsBound
    /\ model_calls = max_attempts

\* C2: when every one of the max_attempts attempts failed (no attempt
\* raised), generate_and_execute returns the last attempt's tuple to
\* jsonl_to_csv instead of raising.
C2_ExhaustedLoopReturnsLastResult ==
    (AllAttemptsFailed /\ loop_exit /= "exception" /\ pc /= "loop")
        => loop_exit = "return"

\* C3: the first model call receives no feedback and every later call
\* receives the failure message of the attempt before it.
C3_FeedbackIsPreviousFailure ==
    /\ (model_calls = 1 => feedback = None)
    /\ (model_calls >= 2 => feedback = prev_failure)

\* C4: when attempt k is the first to succeed overall, the loop returns that
\* attempt's result at once: exactly k model calls were issued, no further
\* attempt is made, and after the return no model call, sandbox run or
\* validation of the loop takes place.
C4_FirstSuccessReturnsImmediately ==
    /\ [](\A k \in 1..Len(attempt_log) :
            attempt_log[k] =>
                /\ Len(attempt_log) = k
                /\ model_calls = k
                /\ loop_exit = "return"
                /\ pc \in {"returned", "done"}
                /\ result.success /\ result.output_exists
                /\ result.validation_success)
    /\ [][loop_exit = "return" =>
            /\ model_calls' = model_calls
            /\ sandbox_runs' = sandbox_runs
            /\ loop_validations' = loop_validations
            /\ loop_exit' = "return"]_vars

\* C4 witness: the second attempt succeeded after a failed first one and the
\* request was answered
C4_Witness ==
    /\ pc = "done"
    /\ attempt_log = <<FALSE, TRUE>>
    /\ model_calls = 2
    /\ max_attempts = MaxAttemptsBound

\* C5: after an attempt the loop calls again exactly when attempts remain
\* and not (execution succeeded and artifact exists and validation
\* succeeded), whatever made the execution fail; a validation that succeeds,
\* also with a warning about columns without data, ends the loop with a
\* return.
C5_RetryExactlyOnFailure ==
    [][pc = "loop" =>
        /\ (pc' = "loop" <=>
                /\ attempt_number < max_attempts
                /\ ~(result'.success /\ result'.output_exists
                     /\ result'.validation_success))
        /\ (pc' = "loop" => attempt_number' = attempt_number + 1)
        /\ (result'.success /\ result'.output_exists /\ validation'.success
                => pc' = "returned" /\ loop_exit' = "return")]_vars

\* C6: when all attempts of an accepted request failed, the response carries
\* an error_details object with execution_error, validation_error and
\* file_error according to the flags of the last attempt.
C6_FailureResponseHasErrorDetails ==
    (pc = "done" /\ AllAttemptsFailed /\ loop_exit /= "exception") =>
        /\ "error_details" \in response.keys
        /\ (~result.success => "execution_error" \in response.error_details)
        /\ (~result.validation_success =>
                "validation_error" \in response.error_details)
        /\ (~result.output_exists => "file_error" \in response.error_details)

\* the value read is missing or blank: empty or made of white space only
NoValue(cell) == cell = NaN \/ cell = "" \/ cell \in WhitespaceOnly

\* B: the columns of the table read without any non-missing, non-blank value
BlankColumns(df) ==
    {j \in 1..Len(df.columns) :
        \A r \in 1..Len(df.rows) : NoValue(df.rows[r][j])}

\* the names of the columns S, in column order, separated by ", "
RECURSIVE ListNames(_, _)
ListNames(file, S) ==
    IF S = {} THEN ""
    ELSE LET j == CHOOSE i \in S : \A k \in S : i <= k IN
         IF S = {j} THEN file.columns[j]
         ELSE file.columns[j] \o ", " \o ListNames(file, S \ {j})

\* C7: validate_csv fails on an unreadable file with the read error; on the
\* table read from a readable file (a blank line of the file is no row of
\* the table, the texts read_csv takes as NA are missing values) it fails
\* with 'CSV file is empty' on zero rows, fails with 'All columns in CSV
\* contain no data' when B is all columns, succeeds with a warning listing
\* exactly the columns of B when B is a non-empty proper subset, and
\* succeeds with 'All columns contain some data' when B is empty.
C7_ValidateCsvClassification ==
    pc = "validated" =>
        LET f == fs_output
            df == read_csv(fs_output)
            v == validation
        IN  IF ~f.exists \/ ~f.readable
            THEN /\ ~v.success
                 /\ v.message \in
                      {"CSV validation failed: No such file or directory",
                       "CSV validation failed: No columns to parse from file"}
            ELSE IF Len(df.rows) = 0
            THEN ~v.success /\ v.message = "CSV file is empty"
            ELSE IF BlankColumns(df) = 1..Len(df.columns)
            THEN /\ ~v.success
                 /\ v.message = "All columns in CSV contain no data"
            ELSE IF BlankColumns(df) /= {}
            THEN /\ v.success
                 /\ v.message =
                      "Warning: The following columns contain no data: "
                      \o ListNames(df, BlankColumns(df))
            ELSE v.success /\ v.message = "All columns contain some data"

\* base64 as RFC 4648 defines it: quads of alphabet characters, padded with
\* at most two '=' at the very end
WellFormedBase64(s) ==
    /\ Len(s) % 4 = 0
    /\ \A i \in 1..Len(s) :
          \/ s[i] \in {"Q", "C", "g"}
          \/ s[i] = "=" /\ i >= Len(s) - 1 /\ s[Len(s)] = "="

\* the request, read and saved without an exception, has one of the input
\* errors: wrong method, no file, file_base64 without file_name, malformed
\* base64, blank first line
InputError(r) ==
    /\ r.parameters_ok
    /\ r.save = "ok"
    /\ \/ r.method /= "POST"
       \/ ~r.has_file /\ ~r.has_file_base64
       \/ ~r.has_file /\ r.has_file_base64 /\ ~r.has_file_name
       \/ ~r.has_file /\ r.has_file_base64
          /\ ~WellFormedBase64(r.file_base64)
       \/ r.has_file /\ first_line_of(r.file) = <<>>
       \/ /\ ~r.has_file /\ r.has_file_base64 /\ r.has_file_name
          /\ WellFormedBase64(r.file_base64)
          /\ decodable(b64decode(r.file_base64).data)
          /\ first_line_of(b64decode(r.file_base64).data) = <<>>

\* C8: every input error is answered with HTTP 400 without entering the retry
\* loop, and no path to a 400 response issues a model call.
C8_InputErrorsGive400 ==
    /\ (pc /= "recv" /\ InputError(request) =>
            response.status = 400 /\ model_calls = 0)
    /\ (response.status = 400 => model_calls = 0)

\* C9: once the conversion succeeded the response is a non-error HTTP
\* response: a failed upload gives gcs_error and no signed URL is attempted,
\* an upload followed by a failed signing gives gcs_path and
\* signed_url_error, and both succeeding gives gcs_path, signed_url and
\* signed_url_expiration_seconds.
C9_StorageFailuresDoNotFailTheCall ==
    (pc = "done" /\ loop_exit = "return" /\ converted(result)) =>
        /\ response.status = 200
        /\ upload_state \in {"ok", "failed"}
        /\ (upload_state = "failed" =>
                response.keys = {"gcs_error"} /\ sign_state = "not_called")
        /\ (upload_state = "ok" => sign_state \in {"ok", "failed"})
        /\ (upload_state = "ok" /\ sign_state = "failed" =>
                response.keys = {"gcs_path", "signed_url_error"})
        /\ (upload_state = "ok" /\ sign_state = "ok" =>
                response.keys = {"gcs_path", "signed_url",
                                 "signed_url_expiration_seconds"})

\* C9 witness: the conversion succeeded and the upload failed
C9_Witness ==
    /\ pc = "done"
    /\ converted(result)
    /\ upload_state = "failed"
    /\ response.status = 200

\* C10: a request that created a temporary input file has, when its response
\* is returned, neither the temporary input file nor the output file left,
\* unless a deletion failed.
C10_TemporaryFilesDeleted ==
    (pc = "done" /\ input_created /\ ~unlink_failed) =>
        ~fs_input /\ ~fs_output.exists


\* C11: two invocations never share a temporary file path: the input path,
\* the output path and the script path of one differ from those of the
\* other, and no invocation validates an output file another one wrote.
C11_InvocationsShareNoTempPath ==
    \A i \in Invocations, j \in Invocations :
        i /= j =>
            LET a == invocations[i]
                b == invocations[j]
            IN  /\ (a.input_path /= NoPath /\ b.input_path /= NoPath =>
                        /\ a.input_path /= b.input_path
                        /\ a.output_path /= b.output_path)
                /\ (a.script_path /= NoPath /\ b.script_path /= NoPath =>
                        a.script_path /= b.script_path)
                /\ a.validated_writer \in {0, i}

\* an exception was raised in the request path and not handled where it
\* was raised: the body or a parameter cannot be read, the upload cannot be
\* saved, the input file cannot be decoded as text, an attempt let an
\* exception through, or the retry decorator gave up with RetryError
UnhandledException ==
    /\ request.method = "POST"
    /\ \/ ~request.parameters_ok
       \/ request.has_file /\ request.save /= "ok"
       \/ loop_exit \in {"exception", "RetryError"}
       \/ /\ input_created
          /\ request.save = "ok"
          /\ ~decodable(save_input(request).content)

\* C12: an exception that is not handled where it is raised in the request
\* path of a POST request is answered with status 500 and a body that has an
\* error message and the run_id; no invocation ends without a response, and
\* an exception that left the retry loop is always caught.
C12_UnhandledExceptionsGive500 ==
    /\ (pc = "done" => response.status /= 0)
    /\ (pc = "done" /\ UnhandledException =>
            /\ response.status = 500
            /\ {"error", "run_id"} \subseteq response.keys)
    /\ (pc = "raised" => UnhandledException /\ ENABLED jsonl_to_csv_except)

\* C12 witness: an exception left execute_python_code and was answered
C12_Witness ==
    /\ pc = "done"
    /\ loop_exit = "exception"
    /\ response.status = 500
    /\ "run_id" \in response.keys

\* the key holds a list with at least one item
NonEmptyList(l) == l.present /\ l.is_list /\ Len(l.items) > 0
\* the key is absent or holds an empty list
AbsentOrEmpty(l) == ~l.present \/ (l.is_list /\ l.items = <<>>)
\* a response was received: there was a token and no transport or HTTP error
Answered == model_result.called /\ api_answer.token /\ api_answer.transport_ok

\* C13: of a received response, a non-empty 'choices' list gives
\* choices[0].message.content, whatever 'candidates' holds; without
\* 'choices' (or with an empty one) a non-empty 'candidates' list gives
\* candidates[0].content.parts[0].text; with neither key, or only empty
\* lists, the call returns no text.
C13_ResponseShapeMapping ==
    Answered =>
        LET choices == api_answer.choices
            candidates == api_answer.candidates
        IN  /\ (NonEmptyList(choices) /\ choices.items[1].well_formed =>
                    /\ ~model_result.is_none
                    /\ model_result.text = choices.items[1].text)
            /\ ((AbsentOrEmpty(choices) /\ NonEmptyList(candidates)
                    /\ candidates.items[1].well_formed) =>
                    /\ ~model_result.is_none
                    /\ model_result.text = candidates.items[1].text)
            /\ (AbsentOrEmpty(choices) /\ AbsentOrEmpty(candidates) =>
                    model_result.is_none)

\* C13 witness: both keys hold a list with a different text and the text of
\* 'choices' was returned
C13_Witness ==
    /\ Answered
    /\ NonEmptyList(api_answer.choices)
    /\ NonEmptyList(api_answer.candidates)
    /\ api_answer.choices.items[1].well_formed
    /\ api_answer.candidates.items[1].well_formed
    /\ api_answer.choices.items[1].text /= api_answer.candidates.items[1].text
    /\ model_result.text = api_answer.choices.items[1].text

\* the part of the response the code reads is not of the expected shape
Malformed(answer) ==
    \/ answer.choices.present /\ ~answer.choices.is_list
    \/ NonEmptyList(answer.choices) /\ ~answer.choices.items[1].well_formed
    \/ /\ AbsentOrEmpty(answer.choices)
       /\ \/ answer.candidates.present /\ ~answer.candidates.is_list
          \/ /\ NonEmptyList(answer.candidates)
             /\ ~answer.candidates.items[1].well_formed
          \/ AbsentOrEmpty(answer.candidates)

\* C14: call_ai_model never raises; without an access token it returns None
\* and sends no request; after a transport or HTTP error, and after a
\* response of another or malformed shape, it returns None.
C14_ModelCallNeverRaises ==
    model_result.called =>
        /\ ~model_result.raised
        /\ (~api_answer.token =>
                model_result.is_none /\ ~model_result.request_sent)
        /\ (api_answer.token /\ ~api_answer.transport_ok =>
                model_result.is_none)
        /\ (api_answer.token /\ api_answer.transport_ok
                /\ Malformed(api_answer) => model_result.is_none)

\* C14 witness: the first item of 'choices' lacks message.content and the
\* call returned None
C14_Witness ==
    /\ Answered
    /\ NonEmptyList(api_answer.choices)
    /\ ~api_answer.choices.items[1].well_formed
    /\ NonEmptyList(api_answer.candidates)
    /\ model_result.is_none
    /\ ~model_result.raised

\* the fallback keeps no line: every line is a bare fence, or holds a fence
\* while an even number of bare fences precedes it
NoLineKept(text) ==
    \A k \in 1..Len(text) :
        \/ bare_fence(text[k])
        \/ /\ contains_fence(text[k])
           /\ Cardinality({j \in 1..(k - 1) : bare_fence(text[j])}) % 2 = 0

\* C16: extract_python_code returns a string for every response text, and
\* when no labeled fence pair matches and the line-by-line fallback keeps no
\* line, that string is the response text itself.
C16_ExtractTotalAndFallsBackToInput ==
    extracted.called =>
        /\ extracted.code \in STRING
        /\ (~code_block_match(ai_response).found /\ NoLineKept(ai_response) =>
                extracted.code = join_lines(ai_response))

\* C16 witness: a text of several fence lines, one of them labeled json, in
\* which nothing matches and nothing is kept, was returned as it is
C16_Witness ==
    /\ extracted.called
    /\ Len(ai_response) > 1
    /\ \E k \in 1..Len(ai_response) : ai_response[k] = "'''json"
    /\ \E k \in 1..Len(ai_response) : ai_response[k] = "'''python"
    /\ ~code_block_match(ai_response).found
    /\ NoLineKept(ai_response)
    /\ extracted.code = join_lines(ai_response)

\* the step is an attempt whose call of call_ai_model returned no text
NoTextAttempt == model_calls' = model_calls + 1 /\ text_calls' = text_calls

\* C17: an attempt whose model call returns no text uses up one of the
\* max_attempts attempts, returns code None with all three flags false, runs
\* neither the sandbox nor the validator and leaves the output file alone,
\* and is retried if an attempt remains; in every state the sandbox has run
\* at most as often as the model returned text.
C17_NoTextAttemptIsAFailedAttempt ==
    /\ [](sandbox_runs <= text_calls /\ text_calls <= model_calls)
    /\ [][NoTextAttempt =>
            /\ result'.code = None
            /\ ~result'.success
            /\ ~result'.validation_success
            /\ ~result'.output_exists
            /\ sandbox_runs' = sandbox_runs
            /\ loop_validations' = loop_validations
            /\ fs_output' = fs_output
            /\ Len(attempt_log') = Len(attempt_log) + 1
            /\ ~attempt_log'[Len(attempt_log')]
            /\ (attempt_number < max_attempts =>
                    pc' = "loop" /\ attempt_number' = attempt_number + 1)
            /\ (attempt_number >= max_attempts => pc' = "raised")]_vars

\* C17 witness: the second attempt got no text after a first one that ran
\* the sandbox, and a third attempt is due
C17_Witness ==
    /\ pc = "loop"
    /\ model_calls = 2
    /\ text_calls = 1
    /\ sandbox_runs = 1
    /\ result.code = None
    /\ result.message = "Failed to generate code from AI model"

\* the step is an attempt that did not produce the file at output_path:
\* there is none afterwards, or the file an earlier request left is still
\* there
AttemptProducedNoFile ==
    /\ model_calls' = model_calls + 1
    /\ \/ ~fs_output'.exists
       \/ fs_output = StaleTable /\ fs_output' = StaleTable

\* C18: an attempt that produced no file at output_path is a failed attempt
\* and is not validated, also when a file of an earlier request or attempt
\* lies at output_path.
C18_AttemptWithoutFileFails ==
    [][AttemptProducedNoFile =>
            /\ loop_validations' = loop_validations
            /\ ~attempt_log'[Len(attempt_log')]]_vars

\* C19: an exception raised while the temporary script is created, written
\* or rewritten, or while the child process is launched, does not leave
\* execute_python_code: the call returns (False, message of the exception).
C19_SandboxExceptionsAreReported ==
    (sandbox_result.called /\ sandbox_run.kind \in RunExceptions) =>
        /\ ~sandbox_result.raised
        /\ ~sandbox_result.success
        /\ sandbox_result.message = "OSError"

\* C20: when execute_python_code is left, by return or by exception, the
\* temporary script it created does not exist.
C20_TemporaryScriptDeleted ==
    sandbox_result.called => ~sandbox_result.script_exists

\* the code with each placeholder replaced by its path in one pass from the
\* left, everything else copied
RECURSIVE Rewritten(_, _, _)
Rewritten(code, input_path, output_path) ==
    IF code = <<>> THEN <<>>
    ELSE IF Len(code) >= 2 /\ SubSeq(code, 1, 2) = InputPlaceholder
    THEN input_path \o Rewritten(SubSeq(code, 3, Len(code)),
                                 input_path, output_path)
    ELSE IF Len(code) >= 2 /\ SubSeq(code, 1, 2) = OutputPlaceholder
    THEN output_path \o Rewritten(SubSeq(code, 3, Len(code)),
                                  input_path, output_path)
    ELSE <<code[1]>> \o Rewritten(Tail(code), input_path, output_path)

\* the placeholder occurs in the code
Occurs(placeholder, code) ==
    \E k \in 1..(Len(code) - 1) : SubSeq(code, k, k + 1) = placeholder

\* C21: the script execute_python_code runs is the code with every
\* occurrence of the input placeholder replaced by input_path and every
\* occurrence of the output placeholder replaced by output_path, the rest
\* unchanged; no placeholder is left in it, and a code that holds a
\* placeholder is never run as it is.  This holds of every run whose child
\* process was started, also when subprocess.run raises after the child ran.
C21_ScriptRunIsTheRewrittenCode ==
    /\ (sandbox_result.called /\ sandbox_run.kind \in ChildRan =>
            sandbox_result.executed)
    /\ (sandbox_result.called /\ sandbox_result.executed) =>
        /\ sandbox_result.script =
               Rewritten(sandbox_code, sandbox_result.input_path,
                         sandbox_result.output_path)
        /\ ~Occurs(InputPlaceholder, sandbox_result.script)
        /\ ~Occurs(OutputPlaceholder, sandbox_result.script)
        /\ (Occurs(InputPlaceholder, sandbox_code)
                \/ Occurs(OutputPlaceholder, sandbox_code) =>
                    sandbox_result.script /= sandbox_code)

\* C21 witness: a code holding both placeholders was run with both rewritten
C21_Witness ==
    /\ sandbox_result.called
    /\ sandbox_result.executed
    /\ sandbox_code = OutputPlaceholder \o InputPlaceholder
    /\ sandbox_result.script =
           sandbox_result.output_path \o sandbox_result.input_path

\* some attempt of the invocation succeeded overall
SomeAttemptSucceeded == \E k \in 1..Len(attempt_log) : attempt_log[k]

\* C22: when the decorated generate_and_execute returns to jsonl_to_csv,
\* success, validation_success and output_exists all hold of the tuple it
\* returns; so upload_to_gcs is called only after an attempt that succeeded,
\* the branch that builds error_details is never taken, and a request that
\* passed the input checks is answered with a status other than 500 only if
\* some attempt succeeded.
C22_NormalReturnMeansSuccess ==
    /\ (loop_exit = "return" =>
            /\ converted(result)
            /\ attempt_log[Len(attempt_log)])
    /\ (upload_state /= "not_called" =>
            loop_exit = "return" /\ converted(result))
    /\ "error_details" \notin response.keys
    /\ (pc = "done" /\ attempt_number >= 1 /\ response.status /= 500 =>
            SomeAttemptSucceeded)

\* C22 witness: after a failed attempt a later one succeeded, the loop
\* returned and the file was uploaded
C22_Witness ==
    /\ pc = "done"
    /\ loop_exit = "return"
    /\ Len(attempt_log) >= 2
    /\ ~attempt_log[1]
    /\ upload_state = "ok"
    /\ response.status = 200
=============================================================================
